---- MODULE Spec2Model ----
(***************************************************************************)
(* Model of the GTFS timetable filter of AldiriakGipuzkoaA4Ordutegiak:     *)
(* getDateInfo and parseGTFS of src/index.tsx (src/App.tsx holds the same  *)
(* text), over the station table of src/unnamed/part_000.                  *)
(*                                                                         *)
(* Representation.  A JavaScript string is a tuple of one-character        *)
(* strings, so that split, trim, padStart, substring, parseInt, the        *)
(* relational operators and localeCompare can be computed as the engine    *)
(* computes them.  A feed file is a record [present, header, rows]: the    *)
(* header is the tuple of column names obtained by lines[0].trim()         *)
(* .split(','), a row is the tuple of cells obtained by line.split(','),   *)
(* and the empty tuple is a blank line.  Array indices are 1-based here,   *)
(* so indexOf's -1 is 0.                                                   *)
(***************************************************************************)
EXTENDS Integers, Sequences, FiniteSets, Bags, TLC

\* ------------------------------------------------------------------------
\* Bounds of the explored feeds
\* ------------------------------------------------------------------------
MaxCalendarRows == 2

MaxExceptionRows == 2

MaxTripRows == 2

MaxStopRows == 3

MaxTimedTrips == 3

\* ------------------------------------------------------------------------
\* JavaScript strings and numbers
\* ------------------------------------------------------------------------
DigitChars == <<"0", "1", "2", "3", "4", "5", "6", "7", "8", "9">>

IsDigit(c) == \E i \in 1..10 : DigitChars[i] = c

DigitVal(c) == (CHOOSE i \in 1..10 : DigitChars[i] = c) - 1

\* the value of a cell or variable that was never set
Undefined == <<"undefined">>

\* UTF-16 code unit of the characters the feeds use
CodeUnit(c) ==
    CASE c = " " -> 32
      [] c = "-" -> 45
      [] c = "/" -> 47
      [] IsDigit(c) -> 48 + DigitVal(c)
      [] c = ":" -> 58
      [] c = "S" -> 83
      [] c = "T" -> 84
      [] c = "x" -> 120
      [] OTHER -> 0

\* a < b for two strings: code-unit lexicographic order
RECURSIVE StrLess(_, _)
StrLess(a, b) ==
    IF b = <<>> THEN FALSE
    ELSE IF a = <<>> THEN TRUE
    ELSE IF CodeUnit(Head(a)) # CodeUnit(Head(b))
         THEN CodeUnit(Head(a)) < CodeUnit(Head(b))
    ELSE StrLess(Tail(a), Tail(b))

\* a <= b; a relational comparison with undefined is false
StrLeq(a, b) ==
    IF a = Undefined \/ b = Undefined THEN FALSE
    ELSE a = b \/ StrLess(a, b)

\* Number(s) of a string of decimal digits
RECURSIVE Number(_)
Number(s) ==
    IF s = <<>> THEN 0
    ELSE 10 * Number(SubSeq(s, 1, Len(s) - 1)) + DigitVal(s[Len(s)])

\* String(n) of a natural number
RECURSIVE numberToString(_)
numberToString(n) ==
    IF n < 10 THEN <<DigitChars[n + 1]>>
    ELSE numberToString(n \div 10) \o <<DigitChars[(n % 10) + 1]>>

RECURSIVE padStart(_, _, _)
padStart(s, n, c) == IF Len(s) >= n THEN s ELSE padStart(<<c>> \o s, n, c)

\* s.split(sep)
RECURSIVE Split(_, _)
Split(s, sep) ==
    IF \A i \in 1..Len(s) : s[i] # sep THEN <<s>>
    ELSE LET k == CHOOSE i \in 1..Len(s) :
                      s[i] = sep /\ \A j \in 1..(i - 1) : s[j] # sep
         IN  <<SubSeq(s, 1, k - 1)>> \o Split(SubSeq(s, k + 1, Len(s)), sep)

\* s.trim(); undefined.trim() throws, which the caller tests first
RECURSIVE TrimStart(_)
TrimStart(s) ==
    IF s # <<>> /\ Head(s) = " " THEN TrimStart(Tail(s)) ELSE s

RECURSIVE TrimEnd(_)
TrimEnd(s) ==
    IF s # <<>> /\ s[Len(s)] = " " THEN TrimEnd(SubSeq(s, 1, Len(s) - 1)) ELSE s

cleanId(id) == TrimEnd(TrimStart(id))

\* s.substring(0, n)
Substring0(s, n) == SubSeq(s, 1, IF Len(s) < n THEN Len(s) ELSE n)

\* parseInt(s): leading blanks skipped, longest prefix of digits, NaN when
\* there is none; parseInt(undefined) is NaN
RECURSIVE DigitPrefix(_)
DigitPrefix(s) ==
    IF s # <<>> /\ IsDigit(Head(s)) THEN <<Head(s)>> \o DigitPrefix(Tail(s))
    ELSE <<>>

NaN == [nan |-> TRUE, val |-> 0]

parseInt(s) ==
    IF s = Undefined THEN NaN
    ELSE LET p == DigitPrefix(TrimStart(s))
         IN  IF p = <<>> THEN NaN ELSE [nan |-> FALSE, val |-> Number(p)]

\* weight of a character in the root collation used by localeCompare:
\* punctuation sorts before the digits
CollationWeight(c) ==
    CASE c = " " -> 1
      [] c = "-" -> 2
      [] c = ":" -> 3
      [] c = "/" -> 4
      [] IsDigit(c) -> 10 + DigitVal(c)
      [] OTHER -> 30 + CodeUnit(c)

\* a.localeCompare(b): negative, zero or positive
RECURSIVE localeCompare(_, _)
localeCompare(a, b) ==
    IF a = <<>> /\ b = <<>> THEN 0
    ELSE IF a = <<>> THEN -1
    ELSE IF b = <<>> THEN 1
    ELSE IF CollationWeight(Head(a)) < CollationWeight(Head(b)) THEN -1
    ELSE IF CollationWeight(Head(a)) > CollationWeight(Head(b)) THEN 1
    ELSE localeCompare(Tail(a), Tail(b))

\* ------------------------------------------------------------------------
\* getDateInfo
\* ------------------------------------------------------------------------
days == <<"sunday", "monday", "tuesday", "wednesday", "thursday", "friday",
          "saturday">>

\* Date(year, month - 1, day).getDay() in the proleptic Gregorian calendar,
\* 0 is Sunday
getDay(year, month, day) ==
    LET t == <<0, 3, 2, 5, 0, 3, 5, 1, 4, 6, 2, 4>>
        y == IF month < 3 THEN year - 1 ELSE year
    IN  (y + (y \div 4) - (y \div 100) + (y \div 400) + t[month] + day) % 7

\* the display date written month first
getDateInfo_MonthFirst(isoDateStr) ==
    LET parts == Split(isoDateStr, "-")
        year  == Number(parts[1])
        month == Number(parts[2])
        day   == Number(parts[3])
    IN  [dateStr |-> numberToString(year) \o padStart(numberToString(month), 2, "0")
                        \o padStart(numberToString(day), 2, "0"),
         dayName |-> days[getDay(year, month, day) + 1],
         formattedDate |-> padStart(numberToString(month), 2, "0") \o <<"/">>
                        \o padStart(numberToString(day), 2, "0") \o <<"/">>
                        \o numberToString(year)]

getDateInfo(isoDateStr) ==
    LET parts == Split(isoDateStr, "-")
        year  == Number(parts[1])
        month == Number(parts[2])
        day   == Number(parts[3])
    IN  [dateStr |-> numberToString(year) \o padStart(numberToString(month), 2, "0")
                        \o padStart(numberToString(day), 2, "0"),
         dayName |-> days[getDay(year, month, day) + 1],
         formattedDate |-> padStart(numberToString(day), 2, "0") \o <<"/">>
                        \o padStart(numberToString(month), 2, "0") \o <<"/">>
                        \o numberToString(year)]

\* ------------------------------------------------------------------------
\* The station table
\* ------------------------------------------------------------------------
Station(orden, estacion, codigo) ==
    [orden |-> orden, estacion |-> estacion, codigo |-> numberToString(codigo)]

\* Ordered list from Irun (1) to Brinkola (27); names without their accents
GIPUZKOA_STATIONS == <<
    Station(1, "Irun", 11600),
    Station(2, "Ventas de Irun", 11518),
    Station(3, "Lezo-Renteria", 11516),
    Station(4, "Pasaia", 11515),
    Station(5, "Herrera", 11514),
    Station(6, "Ategorrieta", 11513),
    Station(7, "Gros", 11512),
    Station(8, "San Sebastian", 11511),
    Station(9, "Loiola", 11510),
    Station(10, "Martutene", 11509),
    Station(11, "Hernani", 11508),
    Station(12, "Hernani-Centro", 11507),
    Station(13, "Urnieta", 11506),
    Station(14, "Andoain", 11505),
    Station(15, "Andoain-Centro", 11504),
    Station(16, "Villabona-Zizurkil", 11503),
    Station(17, "Anoeta", 11502),
    Station(18, "Tolosa-Centro", 11501),
    Station(19, "Tolosa", 11500),
    Station(20, "Alegia", 11409),
    Station(21, "Itsasondo", 11406),
    Station(22, "Ordizia", 11405),
    Station(23, "Beasain", 11404),
    Station(24, "Ormaiztegi", 11402),
    Station(25, "Zumarraga", 11400),
    Station(26, "Legazpi", 11306),
    Station(27, "Brincola", 11305) >>

validStopCodes == {GIPUZKOA_STATIONS[i].codigo : i \in 1..Len(GIPUZKOA_STATIONS)}

\* codeToOrder.get(code); 0 stands for the undefined of a code not in the map
codeToOrder(code) ==
    IF code \in validStopCodes
    THEN GIPUZKOA_STATIONS[CHOOSE i \in 1..Len(GIPUZKOA_STATIONS) :
                               GIPUZKOA_STATIONS[i].codigo = code].orden
    ELSE 0

\* ------------------------------------------------------------------------
\* Text tables
\* ------------------------------------------------------------------------
\* headers.indexOf(name): first position of name, 0 when there is none
indexOf(headers, name) ==
    IF \E i \in 1..Len(headers) : headers[i] = name
    THEN CHOOSE i \in 1..Len(headers) :
             headers[i] = name /\ \A j \in 1..(i - 1) : headers[j] # name
    ELSE 0

\* cols[idx]: undefined outside the row
Col(cols, idx) == IF idx \in 1..Len(cols) THEN cols[idx] ELSE Undefined

\* content.files[filename] is missing, or the text is empty
AbsentFile == [present |-> FALSE, header |-> <<>>, rows |-> <<>>]

\* ------------------------------------------------------------------------
\* parseGTFS, step 2: the services active on the selected date
\* ------------------------------------------------------------------------
calendarIdx(headers, dayName) ==
    [service |-> indexOf(headers, "service_id"),
     day     |-> indexOf(headers, dayName),
     start   |-> indexOf(headers, "start_date"),
     end     |-> indexOf(headers, "end_date")]

\* the end date left out of the range
calendarRowActive_ExclusiveEnd(cols, idx, dateStr) ==
    /\ Col(cols, idx.day) = <<"1">>
    /\ StrLeq(Col(cols, idx.start), dateStr)
    /\ StrLeq(dateStr, Col(cols, idx.end))
    /\ dateStr # Col(cols, idx.end)

\* isActiveDay && dateStr >= startDate && dateStr <= endDate
calendarRowActive(cols, idx, dateStr) ==
    /\ Col(cols, idx.day) = <<"1">>
    /\ StrLeq(Col(cols, idx.start), dateStr)
    /\ StrLeq(dateStr, Col(cols, idx.end))

\* the loop over calendar.txt from line i on
RECURSIVE calendarLoop(_, _, _, _, _)
calendarLoop(lines, i, idx, dateStr, active) ==
    IF i > Len(lines) THEN active
    ELSE IF lines[i] = <<>> THEN calendarLoop(lines, i + 1, idx, dateStr, active)
    ELSE calendarLoop(lines, i + 1, idx, dateStr,
             IF calendarRowActive(lines[i], idx, dateStr)
             THEN active \cup {Col(lines[i], idx.service)}
             ELSE active)

\* the rows read whatever the header holds
calendarPass_NoColumnTest(calendarTxt, dayName, dateStr, active) ==
    IF ~calendarTxt.present THEN active
    ELSE calendarLoop(calendarTxt.rows, 1,
                      calendarIdx(calendarTxt.header, dayName), dateStr, active)

\* 2a: calendar.txt (base schedule)
calendarPass(calendarTxt, dayName, dateStr, active) ==
    IF ~calendarTxt.present THEN active
    ELSE LET idx == calendarIdx(calendarTxt.header, dayName)
         IN  IF idx.service # 0 /\ idx.day # 0 /\ idx.start # 0 /\ idx.end # 0
             THEN calendarLoop(calendarTxt.rows, 1, idx, dateStr, active)
             ELSE active

calendarDatesIdx(headers) ==
    [service |-> indexOf(headers, "service_id"),
     date    |-> indexOf(headers, "date"),
     type    |-> indexOf(headers, "exception_type")]

\* removals not applied
applyException_AddOnly(active, type, serviceId) ==
    IF type = <<"1">> THEN active \cup {serviceId} ELSE active

\* type 1 switches the service: in when it was out, out when it was in
applyException_Toggle(active, type, serviceId) ==
    IF type = <<"1">>
    THEN IF serviceId \in active THEN active \ {serviceId}
         ELSE active \cup {serviceId}
    ELSE IF type = <<"2">> THEN active \ {serviceId}
    ELSE active

\* type 1 forces the service in, type 2 forces it out
applyException(active, type, serviceId) ==
    IF type = <<"1">> THEN active \cup {serviceId}
    ELSE IF type = <<"2">> THEN active \ {serviceId}
    ELSE active

\* the lines applied from the last one back: the first row decides
RECURSIVE calendarDatesLoop_FirstWins(_, _, _, _, _)
calendarDatesLoop_FirstWins(lines, i, idx, dateStr, active) ==
    IF i > Len(lines) THEN active
    ELSE LET later == calendarDatesLoop_FirstWins(lines, i + 1, idx, dateStr,
                                                  active)
         IN  IF lines[i] # <<>> /\ Col(lines[i], idx.date) = dateStr
             THEN applyException(later, Col(lines[i], idx.type),
                                 Col(lines[i], idx.service))
             ELSE later

\* the loop over calendar_dates.txt from line i on
RECURSIVE calendarDatesLoop(_, _, _, _, _)
calendarDatesLoop(lines, i, idx, dateStr, active) ==
    IF i > Len(lines) THEN active
    ELSE IF lines[i] = <<>>
         THEN calendarDatesLoop(lines, i + 1, idx, dateStr, active)
    ELSE calendarDatesLoop(lines, i + 1, idx, dateStr,
             IF Col(lines[i], idx.date) = dateStr
             THEN applyException(active, Col(lines[i], idx.type),
                                 Col(lines[i], idx.service))
             ELSE active)

\* 2b: calendar_dates.txt (exceptions)
calendarDatesPass(calendarDatesTxt, dateStr, active) ==
    IF ~calendarDatesTxt.present THEN active
    ELSE LET idx == calendarDatesIdx(calendarDatesTxt.header)
         IN  IF idx.service # 0 /\ idx.date # 0 /\ idx.type # 0
             THEN calendarDatesLoop(calendarDatesTxt.rows, 1, idx, dateStr, active)
             ELSE active

\* activeServices.size === 0
noActiveService(active) == Cardinality(active) = 0

\* ------------------------------------------------------------------------
\* parseGTFS, step 3: the trips of the active services
\* ------------------------------------------------------------------------
tripsIdx(headers) ==
    [trip    |-> indexOf(headers, "trip_id"),
     service |-> indexOf(headers, "service_id")]

\* the service of the row not looked at
RECURSIVE tripsLoop_AnyService(_, _, _, _, _)
tripsLoop_AnyService(lines, i, tIdx, active, trips) ==
    IF i > Len(lines) THEN trips
    ELSE IF lines[i] = <<>>
         THEN tripsLoop_AnyService(lines, i + 1, tIdx, active, trips)
    ELSE tripsLoop_AnyService(lines, i + 1, tIdx, active,
             trips \cup {Col(lines[i], tIdx.trip)})

\* the loop over trips.txt from line i on: the set activeTrips
RECURSIVE tripsLoop(_, _, _, _, _)
tripsLoop(lines, i, tIdx, active, trips) ==
    IF i > Len(lines) THEN trips
    ELSE IF lines[i] = <<>> THEN tripsLoop(lines, i + 1, tIdx, active, trips)
    ELSE tripsLoop(lines, i + 1, tIdx, active,
             IF Col(lines[i], tIdx.service) \in active
             THEN trips \cup {Col(lines[i], tIdx.trip)}
             ELSE trips)

activeTripsOf(tripsTxt, active) ==
    tripsLoop(tripsTxt.rows, 1, tripsIdx(tripsTxt.header), active, {})

\* ------------------------------------------------------------------------
\* parseGTFS, step 4: the stop events of the active trips in the corridor
\* ------------------------------------------------------------------------
stopTimesIdx(headers) ==
    [trip |-> indexOf(headers, "trip_id"),
     dep  |-> indexOf(headers, "departure_time"),
     stop |-> indexOf(headers, "stop_id"),
     seq  |-> indexOf(headers, "stop_sequence")]

\* the StopTime pushed for a row
stopTimeOf(cols, stIdx) ==
    [trip_id        |-> Col(cols, stIdx.trip),
     arrival_time   |-> <<>>,
     departure_time |-> Col(cols, stIdx.dep),
     stop_id        |-> cleanId(Col(cols, stIdx.stop)),
     stop_sequence  |-> parseInt(Col(cols, stIdx.seq))]

\* tripStops is a Map: here the sequence of its entries in insertion order
hasTrip(ts, tripId) == \E k \in 1..Len(ts) : ts[k].trip_id = tripId

\* every row opens an entry of its own
pushStop_NoGrouping(ts, tripId, st) ==
    Append(ts, [trip_id |-> tripId, stops |-> <<st>>])

pushStop(ts, tripId, st) ==
    IF hasTrip(ts, tripId)
    THEN [k \in 1..Len(ts) |->
             IF ts[k].trip_id = tripId
             THEN [ts[k] EXCEPT !.stops = Append(@, st)]
             ELSE ts[k]]
    ELSE Append(ts, [trip_id |-> tripId, stops |-> <<st>>])

\* the loop over stop_times.txt from line i on; cleanId(undefined) throws
RECURSIVE stopTimesLoop(_, _, _, _, _)
stopTimesLoop(lines, i, stIdx, trips, ts) ==
    IF i > Len(lines) THEN [threw |-> FALSE, tripStops |-> ts]
    ELSE IF lines[i] = <<>> THEN stopTimesLoop(lines, i + 1, stIdx, trips, ts)
    ELSE IF Col(lines[i], stIdx.trip) \notin trips
         THEN stopTimesLoop(lines, i + 1, stIdx, trips, ts)
    ELSE IF Col(lines[i], stIdx.stop) = Undefined
         THEN [threw |-> TRUE, tripStops |-> ts]
    ELSE IF cleanId(Col(lines[i], stIdx.stop)) \in validStopCodes
         THEN stopTimesLoop(lines, i + 1, stIdx, trips,
                  pushStop(ts, Col(lines[i], stIdx.trip),
                           stopTimeOf(lines[i], stIdx)))
    ELSE stopTimesLoop(lines, i + 1, stIdx, trips, ts)

tripStopsOf(stopTimesTxt, trips) ==
    stopTimesLoop(stopTimesTxt.rows, 1, stopTimesIdx(stopTimesTxt.header),
                  trips, <<>>)

\* ------------------------------------------------------------------------
\* parseGTFS, step 5: direction and order
\* ------------------------------------------------------------------------
\* (a, b) => a.stop_sequence - b.stop_sequence; a NaN result counts as 0
seqCompare(a, b) ==
    IF a.stop_sequence.nan \/ b.stop_sequence.nan THEN 0
    ELSE a.stop_sequence.val - b.stop_sequence.val

\* Array.prototype.sort is stable: x goes after every element not above it
RECURSIVE insertStop(_, _)
insertStop(sorted, x) ==
    IF sorted = <<>> THEN <<x>>
    ELSE IF seqCompare(sorted[Len(sorted)], x) <= 0 THEN Append(sorted, x)
    ELSE Append(insertStop(SubSeq(sorted, 1, Len(sorted) - 1), x),
                sorted[Len(sorted)])

\* the stops left in row order
sortStops_RowOrder(stops) == stops

RECURSIVE sortStops(_)
sortStops(stops) ==
    IF stops = <<>> THEN <<>>
    ELSE insertStop(sortStops(SubSeq(stops, 1, Len(stops) - 1)), stops[Len(stops)])

\* seqCompare is a consistent comparator unless a NaN stands beside two
\* different numbers (it equals both, they differ)
consistentComparator(stops) ==
    \/ \A k \in 1..Len(stops) : ~stops[k].stop_sequence.nan
    \/ \A j, k \in 1..Len(stops) :
           (~stops[j].stop_sequence.nan /\ ~stops[k].stop_sequence.nan)
               => stops[j].stop_sequence.val = stops[k].stop_sequence.val

permutationsOf(stops) ==
    {[k \in 1..Len(stops) |-> stops[p[k]]] :
        p \in {q \in [1..Len(stops) -> 1..Len(stops)] :
                  \A j, k \in 1..Len(stops) : q[j] = q[k] => j = k}}

\* what stops.sort(...) may leave: with an inconsistent comparator the order
\* is implementation-defined
sortOutcomes(stops) ==
    IF consistentComparator(stops) THEN {sortStops(stops)}
    ELSE permutationsOf(stops)

\* every way the sort of each entry of tripStops may come out
RECURSIVE sortedTripStops(_)
sortedTripStops(ts) ==
    IF ts = <<>> THEN {<<>>}
    ELSE {<<[trip_id |-> ts[1].trip_id, stops |-> o]>> \o rest :
              o \in sortOutcomes(ts[1].stops), rest \in sortedTripStops(Tail(ts))}

\* only empty groups discarded
tooFewStops_OnlyEmpty(stops) == Len(stops) < 1

\* stops.length < 2
tooFewStops(stops) == Len(stops) < 2

\* firstOrder < lastOrder
isToBrinkola(firstOrder, lastOrder) == firstOrder < lastOrder

\* Format time: HH:MM:SS -> HH:MM
formatTime(departure_time) == Substring0(departure_time, 5)

\* the first write for a stop code stays
RECURSIVE stopsMapOf_FirstWrite(_)
stopsMapOf_FirstWrite(stops) ==
    IF stops = <<>> THEN <<>>
    ELSE LET before == stopsMapOf_FirstWrite(SubSeq(stops, 1, Len(stops) - 1))
             s      == stops[Len(stops)]
         IN  [c \in DOMAIN before \cup {s.stop_id} |->
                 IF c \in DOMAIN before THEN before[c]
                 ELSE formatTime(s.departure_time)]

\* stopsMap: the last write for a stop code stays
RECURSIVE stopsMapOf(_)
stopsMapOf(stops) ==
    IF stops = <<>> THEN <<>>
    ELSE LET before == stopsMapOf(SubSeq(stops, 1, Len(stops) - 1))
             s      == stops[Len(stops)]
         IN  [c \in DOMAIN before \cup {s.stop_id} |->
                 IF c = s.stop_id THEN formatTime(s.departure_time)
                 ELSE before[c]]

parsedTripOf(tripId, stops) ==
    [id |-> tripId,
     stops |-> stopsMapOf(stops),
     firstStopOrder |-> codeToOrder(stops[1].stop_id),
     lastStopOrder |-> codeToOrder(stops[Len(stops)].stop_id),
     departureFromOrigin |-> stops[1].departure_time]

\* the body of tripStops.forEach over the sorted entries from k on;
\* undefined.substring throws
RECURSIVE classifyLoop(_, _, _)
classifyLoop(ts, k, acc) ==
    IF k > Len(ts) THEN acc
    ELSE IF tooFewStops(ts[k].stops) THEN classifyLoop(ts, k + 1, acc)
    ELSE IF codeToOrder(ts[k].stops[1].stop_id) = 0
            \/ codeToOrder(ts[k].stops[Len(ts[k].stops)].stop_id) = 0
         THEN classifyLoop(ts, k + 1, acc)
    ELSE IF \E j \in 1..Len(ts[k].stops) :
                ts[k].stops[j].departure_time = Undefined
         THEN [acc EXCEPT !.threw = TRUE]
    ELSE LET parsedTrip == parsedTripOf(ts[k].trip_id, ts[k].stops)
         IN  IF isToBrinkola(parsedTrip.firstStopOrder, parsedTrip.lastStopOrder)
             THEN classifyLoop(ts, k + 1,
                      [acc EXCEPT !.toBrinkola = Append(@, parsedTrip)])
             ELSE classifyLoop(ts, k + 1,
                      [acc EXCEPT !.toIrun = Append(@, parsedTrip)])

classify(ts) ==
    classifyLoop(ts, 1, [threw |-> FALSE, toBrinkola |-> <<>>, toIrun |-> <<>>])

\* compared on the displayed HH:MM
timeCompare_Truncated(a, b) ==
    localeCompare(formatTime(a.departureFromOrigin),
                  formatTime(b.departureFromOrigin))

timeCompare(a, b) == localeCompare(a.departureFromOrigin, b.departureFromOrigin)

RECURSIVE insertTrip(_, _)
insertTrip(sorted, x) ==
    IF sorted = <<>> THEN <<x>>
    ELSE IF timeCompare(sorted[Len(sorted)], x) <= 0 THEN Append(sorted, x)
    ELSE Append(insertTrip(SubSeq(sorted, 1, Len(sorted) - 1), x),
                sorted[Len(sorted)])

\* trips.sort(timeCompare), stable
RECURSIVE sortTrips(_)
sortTrips(trips) ==
    IF trips = <<>> THEN <<>>
    ELSE insertTrip(sortTrips(SubSeq(trips, 1, Len(trips) - 1)), trips[Len(trips)])

\* ------------------------------------------------------------------------
\* The feeds and dates explored
\* ------------------------------------------------------------------------
S1 == <<"S", "1">>

S2 == <<"S", "2">>

TripIds == <<  <<"T", "1">>, <<"T", "2">>, <<"T", "3">>, <<"T", "4">>, <<"T", "5">>  >>

T1 == TripIds[1]

T2 == TripIds[2]

\* 2024-06-03 is a Monday, 2024-06-09 the Sunday after it
Monday0603 == <<"2", "0", "2", "4", "-", "0", "6", "-", "0", "3">>

Sunday0609 == <<"2", "0", "2", "4", "-", "0", "6", "-", "0", "9">>

Ymd(n) == numberToString(n)

SeqsUpTo(S, n) == UNION {[1..k -> S] : k \in 0..n}

\* the cells of one line in the order of the header
MakeRow(header, rec) == [i \in 1..Len(header) |-> rec[header[i]]]

\* a file of the given header and records, ending in a newline
Table(header, recs) ==
    [present |-> TRUE,
     header  |-> header,
     rows    |-> [i \in 1..Len(recs) |-> MakeRow(header, recs[i])] \o << <<>> >>]

\* the header without one column
Without(header, name) == SelectSeq(header, LAMBDA n : n # name)

CalendarHeader ==
    <<"service_id", "monday", "tuesday", "wednesday", "thursday", "friday",
      "saturday", "sunday", "start_date", "end_date">>

CalendarRec(service, onDays, range) ==
    [n \in {CalendarHeader[i] : i \in 1..Len(CalendarHeader)} |->
        IF n = "service_id" THEN service
        ELSE IF n = "start_date" THEN range[1]
        ELSE IF n = "end_date" THEN range[2]
        ELSE IF n \in onDays THEN <<"1">> ELSE <<"0">>]

\* ranges holding both dates, ending and starting on them, and just inside
DateRanges ==
    { <<Ymd(20240101), Ymd(20241231)>>,
      <<Ymd(20240603), Ymd(20240609)>>,
      <<Ymd(20240604), Ymd(20240608)>> }

CalendarRecs ==
    {CalendarRec(s, d, r) : s \in {S1, S2}, d \in {{"monday"}, {"sunday"}},
                            r \in DateRanges}

CalendarDatesHeader == <<"service_id", "date", "exception_type">>

CalendarDatesRec(service, date, type) ==
    [n \in {"service_id", "date", "exception_type"} |->
        IF n = "service_id" THEN service
        ELSE IF n = "date" THEN date ELSE type]

CalendarDatesRecs ==
    {CalendarDatesRec(s, d, t) : s \in {S1, S2},
                                 d \in {Ymd(20240603), Ymd(20240604)},
                                 t \in {<<"1">>, <<"2">>, <<"3">>}}

TripsHeader == <<"route_id", "service_id", "trip_id">>

TripRec(trip, service) ==
    [n \in {"route_id", "service_id", "trip_id"} |->
        IF n = "trip_id" THEN trip
        ELSE IF n = "service_id" THEN service ELSE <<"x">>]

StopTimesHeader ==
    <<"trip_id", "arrival_time", "departure_time", "stop_id", "stop_sequence">>

StopTimeRec(trip, dep, stop, seq) ==
    [n \in {StopTimesHeader[i] : i \in 1..Len(StopTimesHeader)} |->
        IF n = "trip_id" THEN trip
        ELSE IF n = "departure_time" THEN dep
        ELSE IF n = "stop_id" THEN stop
        ELSE IF n = "stop_sequence" THEN seq ELSE dep]

\* HH:MM:SS
Time(hh, mm, ss) ==
    padStart(numberToString(hh), 2, "0") \o <<":">>
        \o padStart(numberToString(mm), 2, "0") \o <<":">>
        \o padStart(numberToString(ss), 2, "0")

Codigo(orden) == GIPUZKOA_STATIONS[orden].codigo

\* a stop code of another line
OutsideCode == numberToString(71801)

Archive(calendar, calendar_dates, trips, stop_times) ==
    [calendar |-> calendar, calendar_dates |-> calendar_dates,
     trips |-> trips, stop_times |-> stop_times]

Call(f, d) == [file |-> f, selectedDateStr |-> d]

\* S1 runs on Mondays of 2024
MondayCalendar ==
    Table(CalendarHeader,
          <<CalendarRec(S1, {"monday"}, <<Ymd(20240101), Ymd(20241231)>>)>>)

\* T1 of S1 from Irun to Brinkola, T2 of S2 back, one stop of each elsewhere
PlainTrips == Table(TripsHeader, <<TripRec(T1, S1), TripRec(T2, S2)>>)

PlainStopTimeRecs ==
    <<StopTimeRec(T1, Time(8, 0, 0), Codigo(1), <<"1">>),
      StopTimeRec(T2, Time(9, 0, 0), Codigo(27), <<"1">>),
      StopTimeRec(T1, Time(9, 15, 0), OutsideCode, <<"2">>),
      StopTimeRec(T1, Time(10, 30, 0), <<" ">> \o Codigo(27), <<"3">>),
      StopTimeRec(T2, Time(11, 30, 0), Codigo(1), <<"2">>)>>

PlainStopTimes == Table(StopTimesHeader, PlainStopTimeRecs)

\* weekday and date range: any calendar.txt, no calendar_dates.txt
CallsCalendar ==
    {Call(Archive(Table(CalendarHeader, c), AbsentFile, PlainTrips, PlainStopTimes), d) :
        c \in SeqsUpTo(CalendarRecs, MaxCalendarRows),
        d \in {Monday0603, Sunday0609}}

\* exceptions: a calendar that holds or misses the Monday, any calendar_dates.txt
ExceptionCalendars ==
    LET on(s)  == CalendarRec(s, {"monday"}, <<Ymd(20240101), Ymd(20241231)>>)
        off(s) == CalendarRec(s, {"monday"}, <<Ymd(20240604), Ymd(20240608)>>)
    IN  {Table(CalendarHeader, c) :
            c \in {<<>>, <<on(S1)>>, <<off(S1)>>, <<on(S1), on(S2)>>}}

CallsExceptions ==
    {Call(Archive(c, Table(CalendarDatesHeader, e), PlainTrips, PlainStopTimes),
          Monday0603) :
        c \in ExceptionCalendars,
        e \in SeqsUpTo(CalendarDatesRecs, MaxExceptionRows)}

\* files absent, headers in another order or short of one column
CalendarFiles ==
    {AbsentFile}
    \cup {Table(h, <<CalendarRec(S1, {"monday"}, <<Ymd(20240101), Ymd(20241231)>>)>>) :
            h \in {CalendarHeader} \cup
                  {Without(CalendarHeader, n) :
                      n \in {"service_id", "monday", "start_date", "end_date"}}}

CalendarDatesFiles ==
    {AbsentFile}
    \cup {Table(h, <<r>>) :
            h \in {CalendarDatesHeader, <<"date", "exception_type", "service_id">>}
                  \cup {Without(CalendarDatesHeader, n) :
                           n \in {"service_id", "date", "exception_type"}},
            r \in {CalendarDatesRec(S2, Ymd(20240603), <<"1">>),
                   CalendarDatesRec(S1, Ymd(20240603), <<"2">>)}}

TripsFiles ==
    {AbsentFile}
    \cup {Table(h, <<TripRec(T1, S1), TripRec(T2, S2)>>) :
            h \in {TripsHeader, <<"trip_id", "service_id", "route_id">>,
                   Without(TripsHeader, "trip_id"),
                   Without(TripsHeader, "service_id")}}

StopTimesFiles ==
    {AbsentFile}
    \cup {Table(h, PlainStopTimeRecs) :
            h \in {StopTimesHeader,
                   <<"stop_sequence", "stop_id", "trip_id", "departure_time">>}
                  \cup {Without(StopTimesHeader, n) :
                           n \in {"trip_id", "departure_time", "stop_id",
                                  "stop_sequence"}}}

CallsFiles ==
    {Call(Archive(c, e, t, s), Monday0603) :
        c \in CalendarFiles, e \in CalendarDatesFiles,
        t \in TripsFiles, s \in StopTimesFiles}

\* one trip in depth: every stop code and sequence number on each of its rows
StopCells == {Codigo(3), Codigo(9), Codigo(27), OutsideCode}

SeqCells == {<<"1">>, <<"2">>, <<"3">>}

RowTime(i) == Time(8 + ((3 * i) % 4), 10 * i, 0)

StopsOfT1(r) ==
    Call(Archive(MondayCalendar, AbsentFile, PlainTrips,
                 Table(StopTimesHeader,
                       [i \in 1..Len(r) |->
                           StopTimeRec(T1, RowTime(i), r[i][1], r[i][2])])),
         Monday0603)

CallsStops == {StopsOfT1(r) : r \in SeqsUpTo(StopCells \X SeqCells, MaxStopRows)}

\* the same with sequence cells that are not numbers
CallsUnparsed ==
    {StopsOfT1(r) :
        r \in SeqsUpTo({Codigo(3), Codigo(27)} \X {<<"1">>, <<"2">>, <<"x">>},
                       MaxStopRows)}

\* several trips of S1: which way and when each runs
TimedTrips == {TripIds[k] : k \in 1..MaxTimedTrips}

DepartureTimes == {Time(8, 0, 0), Time(8, 0, 30), Time(24, 10, 0)}

\* the rows of one trip: none, one stop, or two stops one way or the other
TripPatterns ==
    ({"none", "single"} \X {Time(7, 0, 0)}) \cup ({"out", "in"} \X DepartureTimes)

PatternRecs(trip, p) ==
    IF p[1] = "none" THEN <<>>
    ELSE IF p[1] = "single"
         THEN <<StopTimeRec(trip, p[2], Codigo(9), <<"1">>)>>
    ELSE IF p[1] = "out"
         THEN <<StopTimeRec(trip, p[2], Codigo(1), <<"1">>),
                StopTimeRec(trip, Time(25, 0, 0), Codigo(27), <<"2">>)>>
    ELSE <<StopTimeRec(trip, p[2], Codigo(27), <<"1">>),
           StopTimeRec(trip, Time(25, 0, 0), Codigo(1), <<"2">>)>>

RECURSIVE PatternRows(_, _)
PatternRows(f, k) ==
    IF k > MaxTimedTrips THEN <<>>
    ELSE PatternRecs(TripIds[k], f[TripIds[k]]) \o PatternRows(f, k + 1)

CallsTimed ==
    {Call(Archive(MondayCalendar, AbsentFile,
                  Table(TripsHeader, [k \in 1..MaxTimedTrips |-> TripRec(TripIds[k], S1)]),
                  Table(StopTimesHeader, PatternRows(f, 1))), Monday0603) :
        f \in [TimedTrips -> TripPatterns]}

\* which service lists which trip, and how often
CallsTrips ==
    {Call(Archive(MondayCalendar, AbsentFile, Table(TripsHeader, t), PlainStopTimes),
          Monday0603) :
        t \in SeqsUpTo({TripRec(x, s) : x \in {T1, T2}, s \in {S1, S2}}, MaxTripRows)}

\* the families of calls explored
Calls == <<CallsCalendar, CallsExceptions, CallsFiles, CallsStops,
           CallsUnparsed, CallsTimed, CallsTrips>>

\* ------------------------------------------------------------------------
\* One invocation of parseGTFS after another
\* ------------------------------------------------------------------------
VARIABLES
    pc,               \* where the invocation stands: the await it is at
    file,             \* the archive passed in
    selectedDateStr,  \* the date passed in, YYYY-MM-DD
    dateInfo,         \* { dateStr, dayName, formattedDate }
    activeServices,
    activeTrips,
    tripStops,
    progress,         \* the messages given to onProgress, in order
    result,           \* the value the promise resolved with
    error,            \* the error the promise rejected with
    \* the App component and what it shares with the functions it calls
    status,           \* useState: { step, message }
    appFile,          \* useState file: the archive chosen, 0 for null
    data,             \* useState: the trip lists held, NoData for null
    selectedDate,     \* useState: YYYY-MM-DD
    runs,             \* the parseGTFS calls of handleProcess still in flight, a bag
    timers,           \* the setTimeout callbacks of handleDownload not yet run
    doc,              \* the last document generatePDF was asked for
    stations,         \* the array GIPUZKOA_STATIONS as it is in memory
    earlier,          \* history: what each call of a series has given
    dataRun           \* history: the call of parseGTFS that gave data

\* the state of one invocation of parseGTFS
parseVars == <<pc, file, selectedDateStr, dateInfo, activeServices, activeTrips,
               tripStops, progress, result, error>>

appVars == <<status, appFile, data, selectedDate, runs, timers, doc, stations,
            dataRun>>

vars == <<pc, file, selectedDateStr, dateInfo, activeServices, activeTrips,
          tripStops, progress, result, error,
          status, appFile, data, selectedDate, runs, timers, doc, stations,
          earlier, dataRun>>

NoArchive == Archive(AbsentFile, AbsentFile, AbsentFile, AbsentFile)

NoDateInfo == [dateStr |-> <<>>, dayName |-> "", formattedDate |-> <<>>]

NoResult == [toBrinkola |-> <<>>, toIrun |-> <<>>, dateUsed |-> <<>>]

NoError == [name |-> "", message |-> "", date |-> <<>>]

\* new Error(message); date is the formattedDate interpolated in the message
Error(message, date) == [name |-> "Error", message |-> message, date |-> date]

TypeError == [name |-> "TypeError", message |-> "", date |-> <<>>]

\* ProcessingStatus
Status(step, message) == [step |-> step, message |-> message]

\* useState<File | null>(null)
NoFile == 0

\* useState<...| null>(null)
NoData == [toBrinkola |-> <<>>, toIrun |-> <<>>, dateUsed |-> <<>>]

\* data given by no call
NoRun == [file |-> NoFile, selectedDate |-> <<>>, at |-> ""]

\* no document asked for yet
NoDoc == [toBrinkola |-> <<>>, toIrun |-> <<>>, dateStr |-> <<>>,
          tables |-> <<>>, saved |-> <<>>, threw |-> FALSE]

\* the presence of the file never tested
missing_NeverTested(txt) == FALSE

\* !tripsTxt, !stopTimesTxt
missing(txt) == ~txt.present

Init ==
    /\ pc = "idle"
    /\ file = NoArchive
    /\ selectedDateStr = <<>>
    /\ dateInfo = NoDateInfo
    /\ activeServices = {}
    /\ activeTrips = {}
    /\ tripStops = <<>>
    /\ progress = <<>>
    /\ result = NoResult
    /\ error = NoError
    /\ status = Status("idle", "")
    /\ appFile = NoFile
    /\ data = NoData
    /\ selectedDate = Monday0603
    /\ runs = EmptyBag
    /\ timers = <<>>
    /\ doc = NoDoc
    /\ stations = GIPUZKOA_STATIONS
    /\ earlier = {}
    /\ dataRun = NoRun

\* parseGTFS(file, selectedDateStr, onProgress) up to await zip.loadAsync(file)
parseGTFS ==
    /\ pc = "idle"
    /\ \E k \in 1..Len(Calls) : \E c \in Calls[k] :
          /\ file' = c.file
          /\ selectedDateStr' = c.selectedDateStr
          /\ dateInfo' = getDateInfo(c.selectedDateStr)
    /\ progress' = <<"Filtrando para fecha">>
    /\ activeServices' = {}
    /\ activeTrips' = {}
    /\ tripStops' = <<>>
    /\ result' = NoResult
    /\ error' = NoError
    /\ pc' = "loadAsync"
    /\ UNCHANGED <<appVars, earlier>>

\* the set of active services kept from one call to the next
loadAsync_KeepsServices ==
    /\ pc = "loadAsync"
    /\ progress' = Append(progress, "Analizando calendario y excepciones")
    /\ pc' = "readCalendar"
    /\ UNCHANGED <<file, selectedDateStr, dateInfo, activeServices, activeTrips,
                   tripStops, result, error>>
    /\ UNCHANGED <<appVars, earlier>>

\* the start of the calendar resolution not reported
loadAsync_Silent ==
    /\ pc = "loadAsync"
    /\ activeServices' = {}
    /\ pc' = "readCalendar"
    /\ UNCHANGED <<file, selectedDateStr, dateInfo, activeTrips, tripStops,
                   progress, result, error>>
    /\ UNCHANGED <<appVars, earlier>>

\* the archive is loaded; up to await readFile("calendar.txt")
loadAsync ==
    /\ pc = "loadAsync"
    /\ progress' = Append(progress, "Analizando calendario y excepciones")
    /\ activeServices' = {}
    /\ pc' = "readCalendar"
    /\ UNCHANGED <<file, selectedDateStr, dateInfo, activeTrips, tripStops,
                   result, error>>
    /\ UNCHANGED <<appVars, earlier>>

\* step 2a; up to await readFile("calendar_dates.txt")
readCalendar ==
    /\ pc = "readCalendar"
    /\ activeServices' = calendarPass(file.calendar, dateInfo.dayName,
                                      dateInfo.dateStr, activeServices)
    /\ pc' = "readCalendarDates"
    /\ UNCHANGED <<file, selectedDateStr, dateInfo, activeTrips, tripStops,
                   progress, result, error>>
    /\ UNCHANGED <<appVars, earlier>>

\* step 2b and the test of the active set; up to await readFile("trips.txt")
readCalendarDates ==
    /\ pc = "readCalendarDates"
    /\ LET active == calendarDatesPass(file.calendar_dates, dateInfo.dateStr,
                                       activeServices)
       IN  /\ activeServices' = active
           /\ IF noActiveService(active)
              THEN /\ error' = Error("No se encontraron servicios activos para la fecha",
                                     dateInfo.formattedDate)
                   /\ pc' = "rejected"
                   /\ UNCHANGED progress
              ELSE /\ progress' = Append(progress, "Procesando viajes activos")
                   /\ pc' = "readTrips"
                   /\ UNCHANGED error
    /\ UNCHANGED <<file, selectedDateStr, dateInfo, activeTrips, tripStops, result>>
    /\ UNCHANGED <<appVars, earlier>>

\* step 3; up to await readFile("stop_times.txt")
readTrips ==
    /\ pc = "readTrips"
    /\ IF missing(file.trips)
       THEN /\ error' = Error("No se encontro trips.txt", <<>>)
            /\ pc' = "rejected"
            /\ UNCHANGED <<activeTrips, progress>>
       ELSE /\ activeTrips' = activeTripsOf(file.trips, activeServices)
            /\ progress' = Append(progress, "Leyendo horarios")
            /\ pc' = "readStopTimes"
            /\ UNCHANGED error
    /\ UNCHANGED <<file, selectedDateStr, dateInfo, activeServices, tripStops, result>>
    /\ UNCHANGED <<appVars, earlier>>

\* steps 4 and 5, to the return
readStopTimes ==
    /\ pc = "readStopTimes"
    /\ IF missing(file.stop_times)
       THEN /\ error' = Error("No se encontro stop_times.txt", <<>>)
            /\ pc' = "rejected"
            /\ UNCHANGED <<tripStops, progress, result>>
       ELSE LET read == tripStopsOf(file.stop_times, activeTrips)
            IN  IF read.threw
                THEN /\ error' = TypeError
                     /\ pc' = "rejected"
                     /\ tripStops' = read.tripStops
                     /\ UNCHANGED <<progress, result>>
                ELSE /\ progress' = Append(progress, "Organizando direcciones")
                     /\ \E sorted \in sortedTripStops(read.tripStops) :
                           LET c == classify(sorted)
                           IN  /\ tripStops' = sorted
                               /\ IF c.threw
                                  THEN /\ error' = TypeError
                                       /\ pc' = "rejected"
                                       /\ UNCHANGED result
                                  ELSE /\ result' =
                                            [toBrinkola |-> sortTrips(c.toBrinkola),
                                             toIrun |-> sortTrips(c.toIrun),
                                             dateUsed |-> dateInfo.formattedDate]
                                       /\ pc' = "resolved"
                                       /\ UNCHANGED error
    /\ UNCHANGED <<file, selectedDateStr, dateInfo, activeServices, activeTrips>>
    /\ UNCHANGED <<appVars, earlier>>

\* the promise is settled and the invocation's working sets are dropped:
\* nothing is kept for the next call
settled ==
    /\ pc \in {"resolved", "rejected"}
    /\ pc' = "idle"
    /\ file' = NoArchive
    /\ selectedDateStr' = <<>>
    /\ dateInfo' = NoDateInfo
    /\ activeServices' = {}
    /\ activeTrips' = {}
    /\ tripStops' = <<>>
    /\ progress' = <<>>
    /\ result' = NoResult
    /\ error' = NoError
    /\ UNCHANGED <<appVars, earlier>>

Next ==
    \/ parseGTFS
    \/ loadAsync
    \/ readCalendar
    \/ readCalendarDates
    \/ readTrips
    \/ readStopTimes
    \/ settled

Spec == Init /\ [][Next]_vars

\* ------------------------------------------------------------------------
\* Reading the archive by column name, for the properties
\* ------------------------------------------------------------------------
Field(table, i, name) == Col(table.rows[i], indexOf(table.header, name))

DataRows(table) == {i \in 1..Len(table.rows) : table.rows[i] # <<>>}

\* the selected date without its hyphens: YYYYMMDD
TargetYmd == SelectSeq(selectedDateStr, LAMBDA c : c # "-")

\* the selected date as DD/MM/YYYY
TargetDmy ==
    SubSeq(selectedDateStr, 9, 10) \o <<"/">> \o SubSeq(selectedDateStr, 6, 7)
        \o <<"/">> \o SubSeq(selectedDateStr, 1, 4)

AllDigits(s) == s # <<>> /\ \A i \in 1..Len(s) : IsDigit(s[i])

\* the weekday of a date of 2024, counted from Monday 1 January 2024
TargetWeekday ==
    LET monthDays == <<31, 29, 31, 30, 31, 30, 31, 31, 30, 31, 30, 31>>
        month == 10 * DigitVal(selectedDateStr[6]) + DigitVal(selectedDateStr[7])
        day   == 10 * DigitVal(selectedDateStr[9]) + DigitVal(selectedDateStr[10])
        RECURSIVE before(_)
        before(m) == IF m = 1 THEN 0 ELSE monthDays[m - 1] + before(m - 1)
    IN  <<"sunday", "monday", "tuesday", "wednesday", "thursday", "friday",
          "saturday">>[((before(month) + day) % 7) + 1]

\* the exception rows of the target date for a service, of one type
ExceptionRows(s, type) ==
    {i \in DataRows(file.calendar_dates) :
        /\ Field(file.calendar_dates, i, "date") = TargetYmd
        /\ Field(file.calendar_dates, i, "service_id") = s
        /\ Field(file.calendar_dates, i, "exception_type") = type}

\* some calendar.txt row runs the service on the target date
CalendarActivates(s) ==
    \E i \in DataRows(file.calendar) :
        /\ Field(file.calendar, i, "service_id") = s
        /\ Field(file.calendar, i, TargetWeekday) = <<"1">>
        /\ AllDigits(Field(file.calendar, i, "start_date"))
        /\ AllDigits(Field(file.calendar, i, "end_date"))
        /\ Number(Field(file.calendar, i, "start_date")) <= Number(TargetYmd)
        /\ Number(TargetYmd) <= Number(Field(file.calendar, i, "end_date"))

ServiceIds == {S1, S2} \cup activeServices

\* the exception pass is over
Resolved == pc \in {"readTrips", "readStopTimes", "resolved", "rejected"}

\* the invocation has returned or thrown
Settled == pc \in {"resolved", "rejected"}

NoActiveServiceError ==
    /\ pc = "rejected"
    /\ error.name = "Error"
    /\ error.message = "No se encontraron servicios activos para la fecha"

MissingTripsError ==
    /\ pc = "rejected"
    /\ error.name = "Error"
    /\ error.message = "No se encontro trips.txt"

\* ------------------------------------------------------------------------
\* Properties
\* ------------------------------------------------------------------------
\* C1: exceptions of calendar_dates.txt for the target date win over the rules
\* of calendar.txt: a service with a type-2 row and no type-1 row for the date
\* is not active, a service with a type-1 row and no type-2 row is active,
\* whatever calendar.txt says and wherever the rows stand.
C1_ExceptionsTakePrecedence ==
    Resolved =>
        \A s \in ServiceIds :
            /\ (ExceptionRows(s, <<"2">>) # {} /\ ExceptionRows(s, <<"1">>) = {})
                   => s \notin activeServices
            /\ (ExceptionRows(s, <<"1">>) # {} /\ ExceptionRows(s, <<"2">>) = {})
                   => s \in activeServices

\* a service of the calendar removed and a service outside it added
C1_Witness ==
    /\ Resolved
    /\ CalendarActivates(S1) /\ ExceptionRows(S1, <<"2">>) # {}
    /\ S1 \notin activeServices
    /\ ~CalendarActivates(S2) /\ ExceptionRows(S2, <<"1">>) # {}
    /\ S2 \in activeServices

\* C2: when no calendar_dates.txt row is for the target date, a service is
\* active exactly when some calendar.txt row of it has "1" under the weekday
\* of the target date and start_date <= target date <= end_date, both ends
\* included.
C2_CalendarRule ==
    (Resolved /\ \A i \in DataRows(file.calendar_dates) :
                    Field(file.calendar_dates, i, "date") # TargetYmd)
        => \A s \in ServiceIds : (s \in activeServices <=> CalendarActivates(s))

\* Scenario A: S1 on Mondays of 2024 is active on 2024-06-03
C2_Witness ==
    /\ Resolved
    /\ selectedDateStr = Monday0603
    /\ file.calendar = MondayCalendar
    /\ ~file.calendar_dates.present
    /\ activeServices = {S1}

\* C3: the call fails with the no-active-service error, carrying the target
\* date as DD/MM/YYYY, exactly when no service is active after the calendar
\* and the exception pass, and then it returns no trip lists.
C3_NoActiveServiceError ==
    Resolved =>
        /\ NoActiveServiceError <=> activeServices = {}
        /\ NoActiveServiceError => (error.date = TargetDmy /\ result = NoResult)

\* Scenario B: the rule for S1 and a type-2 exception for S1 on the date
C3_Witness ==
    /\ NoActiveServiceError
    /\ file.calendar = MondayCalendar
    /\ ExceptionRows(S1, <<"2">>) # {}
    /\ error.date = <<"0", "3", "/", "0", "6", "/", "2", "0", "2", "4">>

\* C4 as claimed: with trips.txt absent the call fails with the error naming
\* trips.txt for every calendar and date.
C4_AsClaimed == (Settled /\ ~file.trips.present) => MissingTripsError

\* C4, amended: with trips.txt absent the call fails with the error naming
\* trips.txt when some service is active on the date, and with the
\* no-active-service error when none is.
C4_MissingTrips ==
    (Settled /\ ~file.trips.present) =>
        /\ activeServices # {} => MissingTripsError
        /\ activeServices = {} => NoActiveServiceError

C4_Witness ==
    /\ ~file.trips.present
    /\ activeServices = {S1}
    /\ MissingTripsError

\* C5: a header of trips.txt or stop_times.txt without one of its required
\* columns ends the call in a failure: a call that returns trip lists had
\* every required column.
RequiredColumns(table, names) ==
    \A n \in names : \E i \in 1..Len(table.header) : table.header[i] = n

C5_MissingColumnFails ==
    pc = "resolved" =>
        /\ RequiredColumns(file.trips, {"trip_id", "service_id"})
        /\ RequiredColumns(file.stop_times,
                           {"trip_id", "departure_time", "stop_id", "stop_sequence"})

\* ------------------------------------------------------------------------
\* Reading the trips of the archive, for the properties
\* ------------------------------------------------------------------------
Ids(list) == {list[i].id : i \in 1..Len(list)}

Occurrences(list, t) == Cardinality({i \in 1..Len(list) : list[i].id = t})

Returned == {result.toBrinkola[i] : i \in 1..Len(result.toBrinkola)}
                \cup {result.toIrun[i] : i \in 1..Len(result.toIrun)}

\* trips.txt lists the trip under an active service
ListedActive(t) ==
    \E i \in DataRows(file.trips) :
        /\ Field(file.trips, i, "trip_id") = t
        /\ Field(file.trips, i, "service_id") \in activeServices

CorridorCodes == {GIPUZKOA_STATIONS[i].codigo : i \in 1..27}

\* the rows of stop_times.txt of the trip at stations of the corridor
CorridorEvents(t) ==
    {i \in DataRows(file.stop_times) :
        /\ Field(file.stop_times, i, "trip_id") = t
        /\ cleanId(Field(file.stop_times, i, "stop_id")) \in CorridorCodes}

KnownTrips ==
    {Field(file.trips, i, "trip_id") : i \in DataRows(file.trips)}
        \cup {Field(file.stop_times, i, "trip_id") : i \in DataRows(file.stop_times)}
        \cup Ids(result.toBrinkola) \cup Ids(result.toIrun)

\* every stop_sequence of the trip's events is a decimal number
IntegerSeqs(t) ==
    \A i \in CorridorEvents(t) :
        AllDigits(Field(file.stop_times, i, "stop_sequence"))

SeqOf(i) == Number(Field(file.stop_times, i, "stop_sequence"))

\* first and last event in stop_sequence order, row order among equals
FirstEvent(t) ==
    CHOOSE i \in CorridorEvents(t) :
        \A j \in CorridorEvents(t) :
            SeqOf(i) < SeqOf(j) \/ (SeqOf(i) = SeqOf(j) /\ i <= j)

LastEvent(t) ==
    CHOOSE i \in CorridorEvents(t) :
        \A j \in CorridorEvents(t) :
            SeqOf(i) > SeqOf(j) \/ (SeqOf(i) = SeqOf(j) /\ i >= j)

Position(i) ==
    CHOOSE k \in 1..27 :
        GIPUZKOA_STATIONS[k].codigo = cleanId(Field(file.stop_times, i, "stop_id"))

\* C6: every returned trip has at least 2 entries in its stops mapping.
C6_AtLeastTwoStations ==
    pc = "resolved" => \A trip \in Returned : Cardinality(DOMAIN trip.stops) >= 2

\* C7: a trip is classified by its first and last corridor stop in
\* stop_sequence order, not row order: to toBrinkola when the position of the
\* first is below that of the last, to toIrun otherwise, equal positions
\* included.
C7_Direction ==
    pc = "resolved" =>
        \A t \in KnownTrips :
            (ListedActive(t) /\ Cardinality(CorridorEvents(t)) >= 2 /\ IntegerSeqs(t))
                => IF Position(FirstEvent(t)) < Position(LastEvent(t))
                   THEN t \in Ids(result.toBrinkola) /\ t \notin Ids(result.toIrun)
                   ELSE t \in Ids(result.toIrun) /\ t \notin Ids(result.toBrinkola)

\* rows at positions 27, 9, 3 whose sequence numbers run the other way
C7_Witness ==
    /\ pc = "resolved"
    /\ Len(file.stop_times.rows) >= 3
    /\ CorridorEvents(T1) = {1, 2, 3}
    /\ IntegerSeqs(T1)
    /\ Position(1) = 27 /\ Position(2) = 9 /\ Position(3) = 3
    /\ FirstEvent(T1) = 3 /\ LastEvent(T1) = 1
    /\ T1 \in Ids(result.toBrinkola)

\* C8: both lists are in non-decreasing order of the raw HH:MM:SS departure
\* time of each trip's first corridor stop, by plain lexicographic order,
\* times from 24:00:00 on included.
SortedByDeparture(list) ==
    \A i, j \in 1..Len(list) :
        i < j => ~StrLess(list[j].departureFromOrigin, list[i].departureFromOrigin)

C8_SortedByRawDeparture ==
    pc = "resolved" =>
        /\ SortedByDeparture(result.toBrinkola)
        /\ SortedByDeparture(result.toIrun)
        /\ \A trip \in Returned :
               IntegerSeqs(trip.id) =>
                   trip.departureFromOrigin =
                       Field(file.stop_times, FirstEvent(trip.id), "departure_time")

\* the later row leaves first, the earlier one after midnight
C8_Witness ==
    /\ pc = "resolved"
    /\ Len(result.toBrinkola) = 2
    /\ result.toBrinkola[1].id = T2
    /\ result.toBrinkola[1].departureFromOrigin = Time(8, 0, 0)
    /\ result.toBrinkola[2].id = T1
    /\ result.toBrinkola[2].departureFromOrigin = Time(24, 10, 0)
    /\ FirstEvent(T1) < FirstEvent(T2)

\* C9: a trip listed under an active service with at least 2 events at
\* corridor stations is once in exactly one of the two lists; no trip id is
\* in both lists or twice in one.
C9_ExactlyOnce ==
    pc = "resolved" =>
        \A t \in KnownTrips :
            /\ (ListedActive(t) /\ Cardinality(CorridorEvents(t)) >= 2)
                   => Occurrences(result.toBrinkola, t)
                          + Occurrences(result.toIrun, t) = 1
            /\ Occurrences(result.toBrinkola, t) + Occurrences(result.toIrun, t) <= 1

\* a trip listed twice and returned once
C9_Witness ==
    /\ pc = "resolved"
    /\ Cardinality({i \in DataRows(file.trips) :
                       Field(file.trips, i, "trip_id") = T1}) = 2
    /\ Ids(result.toBrinkola) = {T1}
    /\ Cardinality(CorridorEvents(T1)) = 2
    /\ Len(result.toBrinkola) = 1
    /\ result.toIrun = <<>>

\* C10: a trip with fewer than 2 events at corridor stations is in neither
\* list.
C10_FewerThanTwoExcluded ==
    pc = "resolved" =>
        \A t \in KnownTrips :
            Cardinality(CorridorEvents(t)) < 2
                => t \notin Ids(result.toBrinkola) \cup Ids(result.toIrun)

\* Scenario D: an active trip with one corridor event beside a returned trip
C10_Witness ==
    /\ pc = "resolved"
    /\ ListedActive(T1)
    /\ Cardinality(CorridorEvents(T1)) = 1
    /\ T1 \notin Ids(result.toBrinkola) \cup Ids(result.toIrun)
    /\ Ids(result.toBrinkola) \cup Ids(result.toIrun) = {T2}

\* C11: every returned trip is listed in trips.txt under an active service,
\* and every key of its stops mapping is the trimmed stop code of a corridor
\* station at which a stop_times.txt row of that trip stands: events of
\* trips that are not active or of stations outside the corridor are not in
\* the output.
C11_OnlyActiveCorridor ==
    pc = "resolved" =>
        \A trip \in Returned :
            /\ ListedActive(trip.id)
            /\ DOMAIN trip.stops \subseteq CorridorCodes
            /\ \A c \in DOMAIN trip.stops :
                   \E i \in CorridorEvents(trip.id) :
                       cleanId(Field(file.stop_times, i, "stop_id")) = c

\* T1 of the active S1 is returned without its stop on another line and with
\* the padded code trimmed; T2 of the inactive S2 is not returned
C11_Witness ==
    /\ pc = "resolved"
    /\ activeServices = {S1}
    /\ file.trips = PlainTrips
    /\ file.stop_times = PlainStopTimes
    /\ Cardinality(CorridorEvents(T2)) = 2
    /\ Ids(result.toBrinkola) = {T1}
    /\ result.toIrun = <<>>
    /\ DOMAIN result.toBrinkola[1].stops = {Codigo(1), Codigo(27)}

\* the corridor rows of the trip whose stop_sequence cell is there and is
\* not read as a number
UnparsedEvents(t) ==
    {i \in CorridorEvents(t) :
        /\ Field(file.stop_times, i, "stop_sequence") # Undefined
        /\ parseInt(Field(file.stop_times, i, "stop_sequence")).nan}

\* C12: a stop_times.txt row of an active trip at a corridor station whose
\* stop_sequence does not parse as an integer ends the call in a failure: a
\* call that returns trip lists had no such row.
C12_UnparsedSequenceFails ==
    pc = "resolved" =>
        \A t \in KnownTrips : ListedActive(t) => UnparsedEvents(t) = {}

\* calendar.txt is not in the archive or its header lacks service_id, the
\* weekday of the target date, start_date or end_date
CalendarSkipped ==
    \/ ~file.calendar.present
    \/ ~RequiredColumns(file.calendar,
                        {"service_id", TargetWeekday, "start_date", "end_date"})

\* calendar_dates.txt is not in the archive or its header lacks a column
CalendarDatesSkipped ==
    \/ ~file.calendar_dates.present
    \/ ~RequiredColumns(file.calendar_dates,
                        {"service_id", "date", "exception_type"})

\* what calendar_dates.txt alone makes of the service: a type-1 row of the
\* target date with no type-2 row of that date after it
ExceptionsAlone(s) ==
    \E i \in ExceptionRows(s, <<"1">>) :
        \A j \in ExceptionRows(s, <<"2">>) : j < i

\* C13: when calendar.txt (calendar_dates.txt) is absent or its header lacks
\* a required column, it contributes nothing and raises no error: the active
\* set is the one the other file alone gives, empty when both are skipped.
C13_SkippedFileContributesNothing ==
    /\ Resolved =>
           /\ CalendarSkipped =>
                  activeServices =
                      {s \in ServiceIds : ~CalendarDatesSkipped /\ ExceptionsAlone(s)}
           /\ CalendarDatesSkipped =>
                  activeServices =
                      {s \in ServiceIds : ~CalendarSkipped /\ CalendarActivates(s)}
    /\ (pc \in {"readCalendarDates", "readTrips"}
            /\ (CalendarSkipped \/ CalendarDatesSkipped)) => error = NoError

\* a calendar.txt whose row would run S1 but whose header has no start_date,
\* beside an exception adding S2
C13_Witness ==
    /\ pc = "readTrips"
    /\ file.calendar.present
    /\ file.calendar.header = Without(CalendarHeader, "start_date")
    /\ DataRows(file.calendar) # {}
    /\ ~CalendarDatesSkipped
    /\ ExceptionRows(S2, <<"1">>) # {}
    /\ activeServices = {S2}

\* the four checkpoints: start of the calendar and exception resolution, of
\* the filtering of active trips, of the reading of stop times, of the
\* classification by direction
Checkpoints ==
    <<"Analizando calendario y excepciones", "Procesando viajes activos",
      "Leyendo horarios", "Organizando direcciones">>

\* C14 as claimed: a run that completes has called onProgress once per
\* checkpoint, in their order, and at no other point.
C14_AsClaimed == pc = "resolved" => progress = Checkpoints

\* C14, amended: a run that completes has called onProgress five times:
\* once with the announcement of the target date before the archive is
\* loaded, then once per checkpoint in their order; at every point of a run
\* the calls made are a prefix of these five.
C14_ProgressOrder ==
    LET calls == <<"Filtrando para fecha">> \o Checkpoints
    IN  /\ pc = "resolved" => progress = calls
        /\ \E n \in 0..Len(calls) : progress = SubSeq(calls, 1, n)

\* a run that returned a trip
C14_Witness ==
    /\ pc = "resolved"
    /\ Len(progress) = 5
    /\ progress[1] = "Filtrando para fecha"
    /\ progress[5] = "Organizando direcciones"
    /\ Len(result.toBrinkola) = 1

\* ------------------------------------------------------------------------
\* generatePDF
\* ------------------------------------------------------------------------
\* array.reverse(), as a value
reverse(array) == [k \in 1..Len(array) |-> array[Len(array) + 1 - k]]

\* trip.stops[st.codigo]: undefined when the record has no such key
stopTime(trip, st) ==
    IF st.codigo \in DOMAIN trip.stops THEN trip.stops[st.codigo] ELSE Undefined

\* time || '-': undefined and the empty string are falsy
cellOf(trip, st) ==
    LET time == stopTime(trip, st)
    IN  IF time = Undefined \/ time = <<>> THEN <<"-">> ELSE time

\* generateTable: the head row and the body rows given to autoTable
generateTable(title, trips, stationList) ==
    [title |-> title,
     head  |-> [k \in 1..Len(stationList) |-> stationList[k].estacion],
     body  |-> [i \in 1..Len(trips) |->
                   [k \in 1..Len(stationList) |-> cellOf(trips[i], stationList[k])]]]

\* dateStr.replace(/\//g, '-')
replaceSlashes(dateStr) ==
    [i \in 1..Len(dateStr) |-> IF dateStr[i] = "/" THEN "-" ELSE dateStr[i]]

\* what a call of generatePDF that returns has drawn and saved; the two
\* station lists are copies of the array, the second one reversed
pdfOf(toBrinkola, toIrun, dateStr, array) ==
    LET stationsToBrinkola == array
        stationsToIrun == reverse(array)
    IN  [toBrinkola |-> toBrinkola, toIrun |-> toIrun, dateStr |-> dateStr,
         tables |-> <<generateTable("Horarios: Irun -> Brinkola", toBrinkola,
                                    stationsToBrinkola),
                      generateTable("Horarios: Brinkola -> Irun", toIrun,
                                    stationsToIrun)>>,
         saved |-> <<"Cercanias_Gipuzkoa_">> \o replaceSlashes(dateStr)
                       \o <<".pdf">>,
         threw |-> FALSE]

\* ------------------------------------------------------------------------
\* The App component
\* ------------------------------------------------------------------------
\* callbacks pending at a time: parseGTFS calls in flight and timers set
MaxPending == 2

\* S1 on Mondays, S2 on Sundays; T1 from Irun to Brinkola with no time given
\* at Loiola, T2 from Brinkola to Irun
WeekCalendar ==
    Table(CalendarHeader,
          <<CalendarRec(S1, {"monday"}, <<Ymd(20240101), Ymd(20241231)>>),
            CalendarRec(S2, {"sunday"}, <<Ymd(20240101), Ymd(20241231)>>)>>)

WeekStopTimes ==
    Table(StopTimesHeader,
          <<StopTimeRec(T1, Time(8, 0, 0), Codigo(1), <<"1">>),
            StopTimeRec(T1, <<>>, Codigo(9), <<"2">>),
            StopTimeRec(T1, Time(10, 30, 0), Codigo(27), <<"3">>),
            StopTimeRec(T2, Time(9, 0, 0), Codigo(27), <<"1">>),
            StopTimeRec(T2, Time(11, 30, 0), Codigo(1), <<"2">>)>>)

\* the archives the user may choose, by the number of the File: one with
\* trips on both days, one without trips.txt and without service on Sundays
AppArchives ==
    <<Archive(WeekCalendar, AbsentFile, PlainTrips, WeekStopTimes),
      Archive(MondayCalendar, AbsentFile, AbsentFile, PlainStopTimes)>>

AppDates == {Monday0603, Sunday0609}

\* the active set parseGTFS reaches for an archive and a date
activeServicesOf(f, info) ==
    calendarDatesPass(f.calendar_dates, info.dateStr,
                      calendarPass(f.calendar, info.dayName, info.dateStr, {}))

\* steps 4 and 5 for an archive and a date: every way they may end
stopTimesOutcomes(f, info) ==
    LET read == tripStopsOf(f.stop_times,
                            activeTripsOf(f.trips, activeServicesOf(f, info)))
    IN  IF read.threw THEN {[threw |-> TRUE, result |-> NoResult]}
        ELSE {LET c == classify(sorted)
              IN  IF c.threw THEN [threw |-> TRUE, result |-> NoResult]
                  ELSE [threw |-> FALSE,
                        result |-> [toBrinkola |-> sortTrips(c.toBrinkola),
                                    toIrun |-> sortTrips(c.toIrun),
                                    dateUsed |-> info.formattedDate]] :
                  sorted \in sortedTripStops(read.tripStops)}

\* the same for each archive and date of the App, computed once
AppActiveServices ==
    [f \in 1..Len(AppArchives), d \in AppDates |->
        activeServicesOf(AppArchives[f], getDateInfo(d))]

AppOutcomes ==
    [f \in 1..Len(AppArchives), d \in AppDates |->
        stopTimesOutcomes(AppArchives[f], getDateInfo(d))]

\* a call of parseGTFS made by handleProcess, at the await named by at
Run(f, d, at) == [file |-> f, selectedDate |-> d, at |-> at]

\* the callbacks the event loop still has to run
Pending == BagCardinality(runs) + Len(timers)

\* runs with the call r at another await, or taken out
Ended(r) == runs (-) SetToBag({r})

Moved(r, at) == Ended(r) (+) SetToBag({[r EXCEPT !.at = at]})

\* handleFileChange: a file was chosen
handleFileChange ==
    /\ \E f \in 1..Len(AppArchives) : appFile' = f
    /\ status' = Status("idle", "")
    /\ data' = NoData
    /\ dataRun' = NoRun
    /\ UNCHANGED <<selectedDate, runs, timers, doc, stations>>
    /\ UNCHANGED <<parseVars, earlier>>

\* onChange of the date input
dateOnChange ==
    /\ \E d \in AppDates \ {selectedDate} : selectedDate' = d
    /\ data' = NoData
    /\ dataRun' = NoRun
    /\ status' = Status("idle", "")
    /\ UNCHANGED <<appFile, runs, timers, doc, stations>>
    /\ UNCHANGED <<parseVars, earlier>>

\* disabled={!file || status.step === 'processing' || status.step === 'reading'}
processDisabled ==
    appFile = NoFile \/ status.step = "processing" \/ status.step = "reading"

\* handleProcess up to the first await of parseGTFS: the status 'reading' is
\* replaced by the first onProgress before anything else can run
handleProcess ==
    /\ ~processDisabled
    /\ Pending < MaxPending
    /\ status' = Status("processing", "Filtrando para fecha")
    /\ runs' = runs (+) SetToBag({Run(appFile, selectedDate, "loadAsync")})
    /\ UNCHANGED <<appFile, data, dataRun, selectedDate, timers, doc, stations>>
    /\ UNCHANGED <<parseVars, earlier>>

\* a run resumes after zip.loadAsync
runLoadAsync ==
    /\ \E r \in BagToSet(runs) :
          /\ r.at = "loadAsync"
          /\ runs' = Moved(r, "readCalendar")
    /\ status' = Status("processing", "Analizando calendario y excepciones")
    /\ UNCHANGED <<appFile, data, dataRun, selectedDate, timers, doc, stations>>
    /\ UNCHANGED <<parseVars, earlier>>

\* a run resumes after readFile("calendar.txt")
runReadCalendar ==
    /\ \E r \in BagToSet(runs) :
          /\ r.at = "readCalendar"
          /\ runs' = Moved(r, "readCalendarDates")
    /\ UNCHANGED <<status, appFile, data, dataRun, selectedDate, timers, doc, stations>>
    /\ UNCHANGED <<parseVars, earlier>>

\* a run resumes after readFile("calendar_dates.txt"); the throw is caught
\* by handleProcess
runReadCalendarDates ==
    /\ \E r \in BagToSet(runs) :
          /\ r.at = "readCalendarDates"
          /\ IF noActiveService(AppActiveServices[r.file,
                                                   r.selectedDate])
             THEN /\ status' = Status("error",
                        "No se encontraron servicios activos para la fecha")
                  /\ runs' = Ended(r)
             ELSE /\ status' = Status("processing", "Procesando viajes activos")
                  /\ runs' = Moved(r, "readTrips")
    /\ UNCHANGED <<appFile, data, dataRun, selectedDate, timers, doc, stations>>
    /\ UNCHANGED <<parseVars, earlier>>

\* a run resumes after readFile("trips.txt")
runReadTrips ==
    /\ \E r \in BagToSet(runs) :
          /\ r.at = "readTrips"
          /\ IF missing(AppArchives[r.file].trips)
             THEN /\ status' = Status("error", "No se encontro trips.txt")
                  /\ runs' = Ended(r)
             ELSE /\ status' = Status("processing", "Leyendo horarios")
                  /\ runs' = Moved(r, "readStopTimes")
    /\ UNCHANGED <<appFile, data, dataRun, selectedDate, timers, doc, stations>>
    /\ UNCHANGED <<parseVars, earlier>>

\* a run resumes after readFile("stop_times.txt") and returns or throws, and
\* handleProcess goes on to setData and setStatus
runReadStopTimes ==
    /\ \E r \in BagToSet(runs) :
          /\ r.at = "readStopTimes"
          /\ runs' = Ended(r)
          /\ IF missing(AppArchives[r.file].stop_times)
             THEN /\ status' = Status("error", "No se encontro stop_times.txt")
                  /\ UNCHANGED <<data, dataRun>>
             ELSE \E o \in AppOutcomes[r.file, r.selectedDate] :
                     IF o.threw
                     THEN /\ status' = Status("error", TypeError.message)
                          /\ UNCHANGED <<data, dataRun>>
                     ELSE /\ data' = o.result
                          /\ dataRun' = Run(r.file, r.selectedDate,
                                             "returned")
                          /\ status' = Status("done",
                                              "Procesamiento completado con exito.")
    /\ UNCHANGED <<appFile, selectedDate, timers, doc, stations>>
    /\ UNCHANGED <<parseVars, earlier>>

\* disabled={!data || status.step === 'generating'}
downloadDisabled == data = NoData \/ status.step = "generating"

\* handleDownload: the callback given to setTimeout holds the data of this
\* render
handleDownload ==
    /\ ~downloadDisabled
    /\ Pending < MaxPending
    /\ status' = Status("generating", "Generando PDF...")
    /\ timers' = Append(timers, data)
    /\ UNCHANGED <<appFile, data, dataRun, selectedDate, runs, doc, stations>>
    /\ UNCHANGED <<parseVars, earlier>>

\* the array itself reversed for the second table
generatePDF_ReversesInPlace ==
    /\ timers # <<>>
    /\ doc' = pdfOf(timers[1].toBrinkola, timers[1].toIrun, timers[1].dateUsed,
                    stations)
    /\ stations' = reverse(stations)
    /\ status' = Status("done", "PDF Descargado.")
    /\ timers' = Tail(timers)
    /\ UNCHANGED <<appFile, data, dataRun, selectedDate, runs>>
    /\ UNCHANGED <<parseVars, earlier>>

\* the callback runs and generatePDF returns
generatePDF ==
    /\ timers # <<>>
    /\ doc' = pdfOf(timers[1].toBrinkola, timers[1].toIrun, timers[1].dateUsed,
                    stations)
    /\ stations' = stations
    /\ status' = Status("done", "PDF Descargado.")
    /\ timers' = Tail(timers)
    /\ UNCHANGED <<appFile, data, dataRun, selectedDate, runs>>
    /\ UNCHANGED <<parseVars, earlier>>

\* the catch also drops the trip lists
generatePDFThrows_DropsData ==
    /\ timers # <<>>
    /\ doc' = [NoDoc EXCEPT !.threw = TRUE]
    /\ stations' = stations
    /\ status' = Status("error", "Error generando PDF.")
    /\ data' = NoData
    /\ dataRun' = NoRun
    /\ timers' = Tail(timers)
    /\ UNCHANGED <<appFile, selectedDate, runs>>
    /\ UNCHANGED <<parseVars, earlier>>

\* the callback runs and jsPDF or autoTable throws inside generatePDF
generatePDFThrows ==
    /\ timers # <<>>
    /\ doc' = [NoDoc EXCEPT !.threw = TRUE]
    /\ stations' = stations
    /\ status' = Status("error", "Error generando PDF.")
    /\ timers' = Tail(timers)
    /\ UNCHANGED <<appFile, data, dataRun, selectedDate, runs>>
    /\ UNCHANGED <<parseVars, earlier>>

AppNext ==
    \/ handleFileChange
    \/ dateOnChange
    \/ handleProcess
    \/ runLoadAsync
    \/ runReadCalendar
    \/ runReadCalendarDates
    \/ runReadTrips
    \/ runReadStopTimes
    \/ handleDownload
    \/ generatePDF
    \/ generatePDFThrows

AppSpec == Init /\ [][AppNext]_vars

\* ------------------------------------------------------------------------
\* Properties of the App component and of generatePDF
\* ------------------------------------------------------------------------
\* generatePDF has returned a document
Drawn == doc # NoDoc /\ ~doc.threw

\* the body has a row per trip and in each row a cell per station of the
\* ordering: the time stored for the station when the trip has one, "-"
\* exactly when it has none
RowsAsClaimed(body, trips, ordering) ==
    /\ Len(body) = Len(trips)
    /\ \A i \in 1..Len(body) :
          /\ Len(body[i]) = 27
          /\ \A k \in 1..27 :
                LET code == ordering[k].codigo
                IN  /\ code \in DOMAIN trips[i].stops
                           => body[i][k] = trips[i].stops[code]
                    /\ body[i][k] = <<"-">> <=> code \notin DOMAIN trips[i].stops

\* C15: in each table of generatePDF every row has one cell per station of
\* the ordering, 27 of them, from Irun to Brinkola in the first table and from
\* Brinkola to Irun in the second; the cell is the HH:MM stored for the trip
\* at the station when the trip stops there, and "-" if and only if it does
\* not stop there.
C15_CellPerStation ==
    Drawn =>
        /\ RowsAsClaimed(doc.tables[1].body, doc.toBrinkola,
                         [k \in 1..27 |-> GIPUZKOA_STATIONS[k]])
        /\ RowsAsClaimed(doc.tables[2].body, doc.toIrun,
                         [k \in 1..27 |-> GIPUZKOA_STATIONS[28 - k]])

\* C16: a step in which the callback of handleDownload runs and generatePDF
\* throws sets the error status of the PDF and leaves data as it was, so
\* that trip lists held before are held after and the download button is
\* enabled for them.
C16_FailureKeepsData ==
    [][(Len(timers') < Len(timers) /\ doc'.threw)
          => /\ data' = data
             /\ status' = Status("error", "Error generando PDF.")
             /\ (data # NoData => (data' # NoData /\ status'.step # "generating"))]_vars

\* a failed download with the trip lists still held
C16_Witness ==
    /\ doc.threw
    /\ timers = <<>>
    /\ status = Status("error", "Error generando PDF.")
    /\ data # NoData
    /\ Len(data.toBrinkola) = 1
    /\ ~downloadDisabled

\* ------------------------------------------------------------------------
\* More properties of parseGTFS
\* ------------------------------------------------------------------------
\* the lines without those that repeat the line just before them
RECURSIVE Squeezed(_)
Squeezed(lines) ==
    IF Len(lines) < 2 THEN lines
    ELSE LET front == Squeezed(SubSeq(lines, 1, Len(lines) - 1))
         IN  IF lines[Len(lines)] = lines[Len(lines) - 1] THEN front
             ELSE Append(front, lines[Len(lines)])

\* some line of calendar_dates.txt for the target date, of the given type,
\* stands twice in a row
RepeatedException(type) ==
    \E i \in DataRows(file.calendar_dates) :
        /\ i + 1 \in DataRows(file.calendar_dates)
        /\ file.calendar_dates.rows[i + 1] = file.calendar_dates.rows[i]
        /\ Field(file.calendar_dates, i, "date") = TargetYmd
        /\ Field(file.calendar_dates, i, "exception_type") = type

\* C17: applying an exception twice is applying it once: the active set of an
\* archive whose calendar_dates.txt repeats a type-1 or a type-2 row of the
\* target date is the active set of the same archive with the row written
\* once.
C17_ExceptionIdempotent ==
    Resolved =>
        activeServices =
            activeServicesOf(
                [file EXCEPT !.calendar_dates.rows = Squeezed(@)], dateInfo)

\* S2, which no calendar row runs, added twice
C17_Witness ==
    /\ Resolved
    /\ RepeatedException(<<"1">>)
    /\ Cardinality(ExceptionRows(S2, <<"1">>)) = 2
    /\ ~CalendarActivates(S2)
    /\ S2 \in activeServices

\* ------------------------------------------------------------------------
\* Calls of parseGTFS one after another, the memory left as each call left it
\* ------------------------------------------------------------------------
\* S1 taken out and S2 put in on the Monday
ExceptionArchive ==
    Archive(MondayCalendar,
            Table(CalendarDatesHeader,
                  <<CalendarDatesRec(S1, Ymd(20240603), <<"2">>),
                    CalendarDatesRec(S2, Ymd(20240603), <<"1">>)>>),
            PlainTrips, PlainStopTimes)

RepeatCalls ==
    {Call(AppArchives[f], d) : f \in 1..Len(AppArchives), d \in AppDates}
        \cup {Call(ExceptionArchive, Monday0603)}

\* what the call under way has given
Outcome ==
    [settled |-> pc, activeServices |-> activeServices, result |-> result,
     error |-> error]

\* a further call of parseGTFS: a new promise; the working sets of the call
\* before are still where it left them
parseGTFSAgain ==
    /\ pc = "idle"
    /\ \E c \in RepeatCalls :
          /\ file' = c.file
          /\ selectedDateStr' = c.selectedDateStr
          /\ dateInfo' = getDateInfo(c.selectedDateStr)
    /\ progress' = <<"Filtrando para fecha">>
    /\ result' = NoResult
    /\ error' = NoError
    /\ pc' = "loadAsync"
    /\ UNCHANGED <<activeServices, activeTrips, tripStops>>
    /\ UNCHANGED <<appVars, earlier>>

\* the promise is settled and the caller notes what the call gave
returned ==
    /\ pc \in {"resolved", "rejected"}
    /\ earlier' = earlier \cup {[call |-> Call(file, selectedDateStr),
                                 outcome |-> Outcome]}
    /\ pc' = "idle"
    /\ UNCHANGED <<file, selectedDateStr, dateInfo, activeServices, activeTrips,
                   tripStops, progress, result, error>>
    /\ UNCHANGED appVars

RepeatNext ==
    \/ parseGTFSAgain
    \/ loadAsync
    \/ readCalendar
    \/ readCalendarDates
    \/ readTrips
    \/ readStopTimes
    \/ returned

RepeatSpec == Init /\ [][RepeatNext]_vars

\* C18: what a call of parseGTFS gives (the active set, the two lists,
\* dateUsed, or the error) depends on its date and archive alone: whatever
\* calls came before it, on these or on other dates and archives, a call gives
\* what every earlier call with the same date and archive gave.
C18_SameCallSameResult ==
    /\ Settled =>
          \A e \in earlier :
              e.call = Call(file, selectedDateStr) => e.outcome = Outcome
    /\ \A e1, e2 \in earlier : e1.call = e2.call => e1 = e2

\* the Monday call on the first archive made again after every other call
\* of the series
C18_Witness ==
    /\ pc = "resolved"
    /\ {e.call : e \in earlier} = RepeatCalls
    /\ file = AppArchives[1]
    /\ selectedDateStr = Monday0603
    /\ activeServices = {S1}
    /\ Ids(result.toBrinkola) = {T1}

\* ------------------------------------------------------------------------
\* The times of a returned trip
\* ------------------------------------------------------------------------
StopCode(i) == cleanId(Field(file.stop_times, i, "stop_id"))

\* the events of the trip at the station of code c
EventsAt(t, c) == {i \in CorridorEvents(t) : StopCode(i) = c}

\* of these the one latest in stop_sequence order, row order among equals
LastEventAt(t, c) ==
    CHOOSE i \in EventsAt(t, c) :
        \A j \in EventsAt(t, c) :
            SeqOf(i) > SeqOf(j) \/ (SeqOf(i) = SeqOf(j) /\ i >= j)

\* the first n characters of s, all of s when it has fewer
FirstChars(s, n) == [k \in 1..(IF Len(s) < n THEN Len(s) ELSE n) |-> s[k]]

\* 8 and 0 give "08:00"
HHMM(hh, mm) ==
    padStart(numberToString(hh), 2, "0") \o <<":">>
        \o padStart(numberToString(mm), 2, "0")

\* C19: for every returned trip whose sequence numbers are decimal numbers,
\* the mapping has an entry for exactly the corridor stations the trip has an
\* event at, and the value for a station code is the first 5 characters of
\* the departure time of the trip's event there; of several events with the
\* same code the one latest in stop_sequence order counts, row order deciding
\* among equal sequence numbers. In the archive of Scenario C, T1 is in the
\* outbound list with 11600 at 08:00 and 11305 at 10:30.
C19_LastInSequenceWins ==
    pc = "resolved" =>
        /\ \A trip \in Returned :
              IntegerSeqs(trip.id) =>
                  /\ DOMAIN trip.stops = {StopCode(i) : i \in CorridorEvents(trip.id)}
                  /\ \A c \in DOMAIN trip.stops :
                        trip.stops[c] =
                            FirstChars(Field(file.stop_times,
                                             LastEventAt(trip.id, c),
                                             "departure_time"), 5)
        /\ (file.trips = PlainTrips /\ file.stop_times = PlainStopTimes
                /\ S1 \in activeServices)
              => \E k \in 1..Len(result.toBrinkola) :
                     /\ result.toBrinkola[k].id = T1
                     /\ DOMAIN result.toBrinkola[k].stops = {Codigo(1), Codigo(27)}
                     /\ result.toBrinkola[k].stops[Codigo(1)] = HHMM(8, 0)
                     /\ result.toBrinkola[k].stops[Codigo(27)] = HHMM(10, 30)

\* T1 is twice at position 3 and once at 27; the row of position 3 with the
\* higher sequence number comes first in the file and its time is the one kept
C19_Witness ==
    /\ pc = "resolved"
    /\ Len(file.stop_times.rows) >= 3
    /\ CorridorEvents(T1) = {1, 2, 3}
    /\ IntegerSeqs(T1)
    /\ StopCode(1) = Codigo(3) /\ StopCode(2) = Codigo(3) /\ StopCode(3) = Codigo(27)
    /\ SeqOf(1) > SeqOf(2)
    /\ \E trip \in Returned :
          /\ trip.id = T1
          /\ trip.stops[Codigo(3)] = HHMM(11, 10)
          /\ trip.stops[Codigo(27)] = HHMM(9, 30)

\* ------------------------------------------------------------------------
\* The station table in memory
\* ------------------------------------------------------------------------
\* C20: whatever parseGTFS and generatePDF calls have been made, the station
\* table holds 27 stations, the station at index i has corridor position i, so
\* that positions run from 1 to 27 in strictly increasing order, and no two
\* stations have the same stop code.
C20_StationsNeverMutated ==
    /\ Len(stations) = 27
    /\ \A i \in 1..27 : stations[i].orden = i
    /\ \A i, j \in 1..27 : i < j => stations[i].orden < stations[j].orden
    /\ \A i, j \in 1..27 : stations[i].codigo = stations[j].codigo => i = j

\* after a parse that returned trips, generatePDF has drawn the second table
\* from Brinkola to Irun and the table in memory still starts at Irun
C20_Witness ==
    /\ Drawn
    /\ Len(doc.toBrinkola) + Len(doc.toIrun) > 0
    /\ doc.tables[2].head[1] = stations[27].estacion
    /\ doc.tables[2].head[27] = stations[1].estacion
    /\ doc.tables[1].head[1] = stations[1].estacion
    /\ stations[1].codigo = Codigo(1)
    /\ stations[1].orden = 1

\* ------------------------------------------------------------------------
\* The App component: parses in flight and the events of the user
\* ------------------------------------------------------------------------
\* C21: whenever the App holds data, the parseGTFS call that gave it was
\* started with the file and the date selected now.
C21_DataOfSelection ==
    data # NoData =>
        /\ dataRun.file = appFile
        /\ dataRun.selectedDate = selectedDate

\* C22: at most one parseGTFS call of handleProcess is in flight at any time.
C22_AtMostOneRun == BagCardinality(runs) <= 1

\* ------------------------------------------------------------------------
\* Exceptions of both types for one service
\* ------------------------------------------------------------------------
\* the rows of calendar_dates.txt that add or remove the service on the date
Deciding(s) == ExceptionRows(s, <<"1">>) \cup ExceptionRows(s, <<"2">>)

LastDeciding(s) == CHOOSE i \in Deciding(s) : \A j \in Deciding(s) : j <= i

\* calendar_dates.txt without the rows of another date or another type
Effective(lines) ==
    SelectSeq(lines,
              LAMBDA cols :
                  /\ Col(cols, indexOf(file.calendar_dates.header, "date"))
                         = TargetYmd
                  /\ Col(cols, indexOf(file.calendar_dates.header,
                                       "exception_type")) \in {<<"1">>, <<"2">>})

\* C23: a service with a type-1 and a type-2 row in calendar_dates.txt for the
\* target date is active exactly when the last of these rows in the file is
\* of type 1, whatever calendar.txt says; and the active set is the one the
\* file gives with its rows of other dates and other types left out.
C23_LastExceptionDecides ==
    Resolved =>
        /\ \A s \in ServiceIds :
              (ExceptionRows(s, <<"1">>) # {} /\ ExceptionRows(s, <<"2">>) # {})
                  => (s \in activeServices
                          <=> LastDeciding(s) \in ExceptionRows(s, <<"1">>))
        /\ activeServices =
               activeServicesOf([file EXCEPT !.calendar_dates.rows = Effective(@)],
                                dateInfo)

\* S1, which the calendar runs, added in the first row and removed in the
\* second: it is out
C23_Witness ==
    /\ Resolved
    /\ CalendarActivates(S1)
    /\ ExceptionRows(S1, <<"1">>) = {1}
    /\ ExceptionRows(S1, <<"2">>) = {2}
    /\ S1 \notin activeServices

====
